---- MODULE Spec2Model ----
(***************************************************************************)
(* Model of the sharded string set of package set (JekaMas/set).           *)
(*                                                                         *)
(*   set.go        the bucket: a map, an atomically updated size and an    *)
(*                 embedded sync.RWMutex                                   *)
(*   hash.go       hash() and the thread-safe Set (type Set SetNonTS)      *)
(*   SetNonTS      the struct {Sets, Buckets, Length}, NewNonTS and the    *)
(*                 lock-free Pop with its random starting bucket           *)
(*   set_ts_operations.go   Union, Difference, Intersection,               *)
(*                 SymmetricDifference and getSmallestSet                  *)
(*                                                                         *)
(* Buckets are heap objects: Clear installs fresh ones while other         *)
(* goroutines may still hold a pointer to the old ones.  Every method of   *)
(* Set is a sequence of steps, one per access to shared memory, so that    *)
(* goroutines interleave as the Go scheduler lets them.  The functions of  *)
(* set_ts_operations.go work on a result Set of their own and take one     *)
(* step per bucket and per visited item, in any order a map may yield.     *)
(***************************************************************************)
EXTENDS Integers, Sequences, FiniteSets, TLC

\* ------------------------------------------------------------------ bounds
\* The code has 64 buckets and 64-bit counters; the model is scaled down.
Buckets == 2
UintBits == 6
NThreads == 2
AddM == 2
MaxArgs == 2
MaxArgsAddRem == 3
MaxOpsConc == 3
MaxOpsLock == 2
MaxOpsSeq == 3
MaxOpsAddRem == 2
MaxOpsEach == 1
MaxOpsAlg == 2
MaxOpsTwo == 2
MaxOpsCopy == 3
MaxOpsRace == 2
MaxOpsBkt == 2
MaxOpsPops == 4
MaxOpsNonTS == 3
MaxSets == 3

\* The two Sets of the model: the receiver s and another Set t.
SetIds == {1, 2}
Threads == 1..NThreads
BucketIdx == 0..(Buckets - 1)
\* Every bucket a Set has installed, and at most two more per goroutine (the
\* locals sSet and tSet of IsEqual), can be live at once.
ObjIds == 1..(Cardinality(SetIds) * Buckets + 2 * NThreads)

\* ----------------------------------------------------------------- strings
EmptyStr == ""
Strings == <<"a", "b", "c", "d", "e", "f", "g", "h", "i">>
ConcItems == {"a", "b"}
SeqItems == {EmptyStr, "a", "b"}

\* farm.Hash32 is an external collaborator: a fixed deterministic function of
\* the string.  The table gives collisions and non-collisions for 2 and for 3
\* buckets.
Hash32(s) ==
    CASE s = "" -> 6
      [] s = "a" -> 7
      [] s = "b" -> 4
      [] s = "c" -> 9
      [] s = "d" -> 13
      [] s = "e" -> 2
      [] s = "f" -> 11
      [] s = "g" -> 8
      [] s = "h" -> 3
      [] s = "i" -> 10

hash(s, maxValue) == Hash32(s) % maxValue

\* The items of an argument list.
Range(xs) == {xs[k] : k \in 1..Len(xs)}

\* ------------------------------------------------------- unsigned counters
Modulus == 2 ^ UintBits
\* uint64(n) of an int n
ToUint64(n) == n % Modulus
\* ^x
Not64(x) == Modulus - 1 - x
\* atomic.AddUint64(&x, d)
AddUint64(x, d) == (x + d) % Modulus
\* int(x) of a uint64 x
ToInt(x) == IF x >= Modulus \div 2 THEN x - Modulus ELSE x

\* ------------------------------------------------------------- the bucket
\* newSet(): an empty map, size 0, an unlocked RWMutex.
newSet == [Storage |-> {}, size |-> 0, readers |-> 0, writer |-> FALSE, waiting |-> 0]

RECURSIVE addLoop(_, _, _)
addLoop(storage, items, count) ==
    IF items = <<>> THEN [Storage |-> storage, count |-> count]
    ELSE IF Head(items) \in storage
         THEN addLoop(storage, Tail(items), count)
         ELSE addLoop(storage \cup {Head(items)}, Tail(items), count + 1)

\* Add returning the size of the map instead of the number of insertions
setAddReturnsLen(b, items) ==
    LET r == addLoop(b.Storage, items, 0)
    IN [set |-> [b EXCEPT !.Storage = r.Storage,
                          !.size = AddUint64(b.size, ToUint64(r.count))],
        ret |-> Cardinality(r.Storage)]

\* (s *set) Add(items...) int
setAdd(b, items) ==
    LET r == addLoop(b.Storage, items, 0)
    IN [set |-> [b EXCEPT !.Storage = r.Storage,
                          !.size = AddUint64(b.size, ToUint64(r.count))],
        ret |-> r.count]

RECURSIVE removeLoop(_, _, _)
removeLoop(storage, items, diff) ==
    IF items = <<>> THEN [Storage |-> storage, diff |-> diff]
    ELSE IF Head(items) \notin storage
         THEN removeLoop(storage, Tail(items), diff + 1)
         ELSE removeLoop(storage \ {Head(items)}, Tail(items), diff)

setRemoveCountsAbsent(b, items) ==
    LET r == removeLoop(b.Storage, items, 0)
    IN [set |-> [b EXCEPT !.Storage = r.Storage,
                          !.size = AddUint64(b.size, Not64(ToUint64(Len(items) - r.diff - 1)))],
        ret |-> Len(items)]

\* (s *set) Remove(items...) int
setRemove(b, items) ==
    LET r == removeLoop(b.Storage, items, 0)
    IN [set |-> [b EXCEPT !.Storage = r.Storage,
                          !.size = AddUint64(b.size, Not64(ToUint64(Len(items) - r.diff - 1)))],
        ret |-> Len(items) - r.diff]

\* remove(item) without its update of the size counter
setremoveKeepsSize(b, item) ==
    IF item \notin b.Storage THEN b
    ELSE [b EXCEPT !.Storage = b.Storage \ {item}]

\* (s *set) remove(item)
setremove(b, item) ==
    IF item \notin b.Storage THEN b
    ELSE [b EXCEPT !.Storage = b.Storage \ {item},
                   !.size = AddUint64(b.size, Not64(0))]

\* (s *set) Pop(): what the range over the map may yield first.  The map order
\* is unspecified: each stored item is a possible outcome, and an empty map
\* yields nothing (the method returns "").
setPopChoices(b) == IF b.Storage = {} THEN {EmptyStr} ELSE b.Storage

\* Pop() returning the item the range yields without removing it
setPopKeepsItem(b, item) ==
    IF item \in b.Storage THEN [set |-> b, ret |-> item]
    ELSE [set |-> b, ret |-> EmptyStr]

\* (s *set) Pop() string, when the range yields item first
setPop(b, item) ==
    IF item \in b.Storage THEN [set |-> setremove(b, item), ret |-> item]
    ELSE [set |-> b, ret |-> EmptyStr]

RECURSIVE hasLoop(_, _, _)
hasLoop(storage, items, has) ==
    IF items = <<>> THEN has
    ELSE IF Head(items) \in storage
         THEN hasLoop(storage, Tail(items), TRUE)
         ELSE FALSE

\* (s *set) Has(items...) bool
setHas(b, items) == hasLoop(b.Storage, items, TRUE)

\* (s *set) Size() int
setSize(b) == ToInt(b.size)

\* sync.RWMutex, embedded in set: a writer waits for the readers to leave, and
\* a waiting writer keeps new readers out.
CanLock(b) == ~b.writer /\ b.readers = 0
CanRLock(b) == ~b.writer /\ b.waiting = 0
\* Lock(): taken at once when free, else the caller is queued as a waiting writer
MutexLock(b) == IF CanLock(b) THEN [b EXCEPT !.writer = TRUE]
                ELSE [b EXCEPT !.waiting = @ + 1]
\* Lock() returning to a queued writer
MutexLockWait(b) == [b EXCEPT !.writer = TRUE, !.waiting = @ - 1]
MutexUnlock(b) == [b EXCEPT !.writer = FALSE]
MutexRLock(b) == [b EXCEPT !.readers = @ + 1]
MutexRUnlock(b) == [b EXCEPT !.readers = @ - 1]

\* ------------------------------------------------------------------ state
VARIABLES
    Sets,     \* Sets[s][i]: the bucket object installed at index i of Set s
    Length,   \* Length[s]: the uint64 counter of Set s
    heap,     \* heap[o]: the bucket object o (Storage, size, its RWMutex)
    th,       \* th[t]: goroutine t's program counter and locals
    last,     \* last[t]: the call goroutine t has returned from, and its result
    pre,      \* pre[t]: members and Size() of the receiver, and of every Set,
              \* when t's call began
    added,    \* items added and, since then, not taken out again
    done,     \* done[t]: how many of its own items goroutine t has added
    ops,      \* calls started so far
    mode,     \* which driver runs (fixed by Init)
    alg,      \* the call of a function of set_ts_operations.go, and its result
    popped    \* the items the Set was made with, and how many Pop calls have
              \* returned each item

vars == <<Sets, Length, heap, th, last, pre, added, done, ops, mode, alg, popped>>

\* A goroutine's locals.  A method that calls another method of Set (Merge,
\* Separate, IsSubset, Copy) keeps its own loop state in bi, pend and sub and
\* runs the callee on the same record; ret is where the callee returns to.
IdleTh == [pc |-> "idle", op |-> "", s |-> 0, t |-> 0, items |-> <<>>, i |-> 0, count |-> 0,
           set |-> 0, tSet |-> 0, setLength |-> 0, res |-> "", ok |-> TRUE,
           bi |-> 0, pend |-> {}, seen |-> <<>>, sub |-> TRUE, ret |-> ""]
NoLast == [op |-> "none", s |-> 0, t |-> 0, items |-> <<>>, str |-> "", ok |-> FALSE,
           seen |-> <<>>]
NoPre == [members |-> {}, size |-> 0,
          all |-> [o \in SetIds |-> [members |-> {}, size |-> 0]]]
NoAdded == [claimed |-> {}, amended |-> {}]

\* A Set as a value: its buckets and its Length.  The functions of
\* set_ts_operations.go build their result in a Set of their own, made by
\* New() and reachable by nobody else until it is returned.
NewV == [Sets |-> [i \in BucketIdx |-> newSet], Length |-> 0]
\* No function of set_ts_operations.go has been called.
NoAlg == [pc |-> "idle", call |-> "", op |-> "", in |-> <<>>, sets |-> <<>>, phase |-> 0,
          k |-> 0, i |-> 0, pend |-> {}, smallestIndex |-> 0, result |-> NewV, u |-> NewV]

\* No Pop call has returned an item.
NoPopped == [from |-> {}, got |-> [x \in Range(Strings) |-> 0]]

\* The driver modes whose history (last, pre, added) is recorded.
Sequential == mode \in {"seq", "addrem"}
\* The driver modes with one goroutine, whose last call and the receiver
\* before it (last, pre) are recorded.
Recorded == mode \notin {"nm", "conc", "lock", "race", "pops"}

\* The objects some slot or some goroutine's local still points to.
Refs(S, T) ==
    ({S[s][i] : s \in SetIds, i \in BucketIdx}
       \cup {T[t].set : t \in Threads} \cup {T[t].tSet : t \in Threads}) \ {0}
\* Garbage collection: an object nothing points to is gone (it reads as fresh).
Collect(h, S, T) == [o \in ObjIds |-> IF o \in Refs(S, T) THEN h[o] ELSE newSet]
\* The object newSet() returns: one nothing points to.
Alloc(S, T) == CHOOSE o \in ObjIds \ Refs(S, T) : \A p \in ObjIds \ Refs(S, T) : o <= p

\* NewNonTS(): Buckets fresh buckets, Length 0.
NewNonTS(s) == [i \in BucketIdx |-> (s - 1) * Buckets + i + 1]

\* (s *Set) Size() int
Size(s) == ToInt(Length[s])
\* (s *Set) GetSet(item): the bucket installed at the item's index
GetSet(s, item) == Sets[s][hash(item, Buckets)]
\* The items stored in the buckets Set s has installed (what List() collects);
\* a Set variable not assigned yet (nil) has none.
Members(s) == UNION {IF Sets[s][i] = 0 THEN {} ELSE heap[Sets[s][i]].Storage : i \in BucketIdx}
\* The sum of the installed buckets' size counters.
RECURSIVE SumSizes(_, _)
SumSizes(s, n) == IF n = 0 THEN 0 ELSE setSize(heap[Sets[s][n - 1]]) + SumSizes(s, n - 1)

\* A panic (index out of range) ends the whole process.
Aborted == \E t \in Threads : th[t].pc = "panic"
Quiescent == \A t \in Threads : th[t].pc = "idle"

Commit(nth, nS, nL, nh) ==
    /\ th' = nth
    /\ Sets' = nS
    /\ Length' = nL
    /\ heap' = Collect(nh, nS, nth)

NoReturn == UNCHANGED <<last, pre, added, done, ops, mode, alg, popped>>

\* What a completed call does to the record of added items: the claim's
\* reading (only Remove and Clear take an item out) and the amended one
\* (a Pop that returns the item takes it out too).
NextAdded(op, items, str) ==
    LET xs == {items[k] : k \in 1..Len(items)}
    IN CASE op \in {"Add", "New"} ->
              [claimed |-> added.claimed \cup xs, amended |-> added.amended \cup xs]
         [] op = "Remove" ->
              [claimed |-> added.claimed \ xs, amended |-> added.amended \ xs]
         [] op = "Clear" -> NoAdded
         [] op = "Pop" -> [added EXCEPT !.amended = @ \ {str}]
         [] OTHER -> added

\* A method called by another method of Set returns (str, ok) to its caller,
\* at the caller's program point ret: the callee's locals die, the caller's
\* (op, s, t, bi, pend, seen, sub) live on.
ReturnTo(me, str, ok) ==
    [IdleTh EXCEPT !.pc = me.ret, !.op = me.op, !.s = me.s, !.t = me.t, !.bi = me.bi,
                   !.pend = me.pend, !.seen = me.seen, !.sub = me.sub,
                   !.res = str, !.ok = ok]

\* The call of goroutine t returns (str, ok): its locals die.
Return(t, str, ok, nS, nL, nh) ==
    LET me == th[t]
        nth == [th EXCEPT ![t] = IF me.ret # "" THEN ReturnTo(me, str, ok) ELSE IdleTh]
    IN /\ Commit(nth, nS, nL, nh)
       /\ last' = IF Recorded /\ me.ret = ""
                  THEN [last EXCEPT ![t] = [op |-> me.op, s |-> me.s, t |-> me.t,
                                            items |-> me.items, str |-> str, ok |-> ok,
                                            seen |-> me.seen]]
                  ELSE last
       /\ added' = IF Sequential THEN NextAdded(me.op, me.items, str) ELSE added
       /\ done' = IF mode = "nm" THEN [done EXCEPT ![t] = @ + Len(me.items)] ELSE done
       /\ popped' = IF mode = "pops" /\ me.op = "Pop" /\ str # EmptyStr
                    THEN [popped EXCEPT !.got[str] = @ + 1]
                    ELSE popped
       /\ UNCHANGED <<pre, ops, mode, alg>>

\* A call starts: the locals of the method, and its first program point.
Call(t, s, op, items, o, pc, i0) ==
    /\ ~Aborted
    /\ th[t].pc = "idle"
    /\ Commit([th EXCEPT ![t] = [IdleTh EXCEPT !.pc = pc, !.op = op, !.s = s, !.t = o,
                                                !.items = items, !.i = i0]],
              Sets, Length, heap)
    /\ pre' = IF Recorded
              THEN [pre EXCEPT ![t] = [members |-> Members(s), size |-> Size(s),
                                       all |-> [x \in SetIds |->
                                                  [members |-> Members(x), size |-> Size(x)]]]]
              ELSE pre
    /\ last' = [last EXCEPT ![t] = NoLast]
    /\ ops' = ops + 1
    /\ UNCHANGED <<added, done, mode, alg, popped>>

\* A step of goroutine t inside a method: its locals and the heap change.
Step(t, me, nS, nL, nh) ==
    /\ ~Aborted
    /\ Commit([th EXCEPT ![t] = me], nS, nL, nh)
    /\ NoReturn

\* set.Lock() at program point `at`: on to `got`, or queued at `wait`.
LockStep(t, at, got, wait) ==
    LET me == th[t]
        b == heap[me.set]
    IN /\ me.pc = at
       /\ Step(t, [me EXCEPT !.pc = IF CanLock(b) THEN got ELSE wait],
               Sets, Length, [heap EXCEPT ![me.set] = MutexLock(b)])

\* set.Lock() returns to a goroutine queued at `at`.
WaitStep(t, at, got) ==
    LET me == th[t]
        b == heap[me.set]
    IN /\ me.pc = at
       /\ CanLock(b)
       /\ Step(t, [me EXCEPT !.pc = got],
               Sets, Length, [heap EXCEPT ![me.set] = MutexLockWait(b)])

\* o.RLock() at program point `at`: blocks while a writer holds or awaits o.
RLockStep(t, at, got, o) ==
    LET me == th[t]
    IN /\ me.pc = at
       /\ CanRLock(heap[o])
       /\ Step(t, [me EXCEPT !.pc = got],
               Sets, Length, [heap EXCEPT ![o] = MutexRLock(@)])

\* ------------------------------------------------------------- Set.Add
\* for _, item := range items: the loop goes on, or the method moves on to
\* its atomic add.
LoopPc(me, body, after) == IF me.i + 1 > Len(me.items) THEN after ELSE body

CallAdd(t, s, items) ==
    Call(t, s, "Add", items, 0, IF items = <<>> THEN "Add_len" ELSE "Add_get", 1)

\* t = s.GetSet(item)
Add_get(t) ==
    LET me == th[t]
    IN /\ me.pc = "Add_get"
       /\ Step(t, [me EXCEPT !.pc = "Add_lock", !.set = GetSet(me.s, me.items[me.i])],
               Sets, Length, heap)

\* t.Lock()
Add_lock(t) == LockStep(t, "Add_lock", "Add_do", "Add_wait")
\* t.Lock() returns to a goroutine that had to wait
Add_wait(t) == WaitStep(t, "Add_wait", "Add_do")

\* count += t.Add(item)
Add_do(t) ==
    LET me == th[t]
        r == setAdd(heap[me.set], <<me.items[me.i]>>)
    IN /\ me.pc = "Add_do"
       /\ Step(t, [me EXCEPT !.pc = "Add_unlock", !.count = @ + r.ret],
               Sets, Length, [heap EXCEPT ![me.set] = r.set])

\* t.Unlock(), and the next item
Add_unlock(t) ==
    LET me == th[t]
    IN /\ me.pc = "Add_unlock"
       /\ Step(t, [me EXCEPT !.pc = LoopPc(me, "Add_get", "Add_len"), !.i = @ + 1, !.set = 0],
               Sets, Length, [heap EXCEPT ![me.set] = MutexUnlock(@)])

\* atomic.AddUint64(&s.Length, uint64(count))
Add_len(t) ==
    LET me == th[t]
    IN /\ me.pc = "Add_len"
       /\ ~Aborted
       /\ Return(t, "", TRUE, Sets,
                 [Length EXCEPT ![me.s] = AddUint64(@, ToUint64(me.count))], heap)

AddSteps(t) ==
    \/ Add_get(t) \/ Add_lock(t) \/ Add_do(t) \/ Add_unlock(t) \/ Add_len(t)

\* ----------------------------------------------------------- Set.Remove
CallRemove(t, s, items) ==
    Call(t, s, "Remove", items, 0, IF items = <<>> THEN "Remove_len" ELSE "Remove_get", 1)

\* set := s.GetSet(item)
Remove_get(t) ==
    LET me == th[t]
    IN /\ me.pc = "Remove_get"
       /\ Step(t, [me EXCEPT !.pc = "Remove_lock", !.set = GetSet(me.s, me.items[me.i])],
               Sets, Length, heap)

\* set.Lock()
Remove_lock(t) == LockStep(t, "Remove_lock", "Remove_do", "Remove_wait")
Remove_wait(t) == WaitStep(t, "Remove_wait", "Remove_do")

\* count += set.Remove(item)
Remove_do(t) ==
    LET me == th[t]
        r == setRemove(heap[me.set], <<me.items[me.i]>>)
    IN /\ me.pc = "Remove_do"
       /\ Step(t, [me EXCEPT !.pc = "Remove_unlock", !.count = @ + r.ret],
               Sets, Length, [heap EXCEPT ![me.set] = r.set])

\* set.Unlock(), and the next item
Remove_unlock(t) ==
    LET me == th[t]
    IN /\ me.pc = "Remove_unlock"
       /\ Step(t, [me EXCEPT !.pc = LoopPc(me, "Remove_get", "Remove_len"),
                             !.i = @ + 1, !.set = 0],
               Sets, Length, [heap EXCEPT ![me.set] = MutexUnlock(@)])

\* atomic.AddUint64(&s.Length, ^uint64(count - 1))
Remove_len(t) ==
    LET me == th[t]
    IN /\ me.pc = "Remove_len"
       /\ ~Aborted
       /\ Return(t, "", TRUE, Sets,
                 [Length EXCEPT ![me.s] = AddUint64(@, Not64(ToUint64(me.count - 1)))], heap)

RemoveSteps(t) ==
    \/ Remove_get(t) \/ Remove_lock(t) \/ Remove_do(t) \/ Remove_unlock(t)
    \/ Remove_len(t)

\* -------------------------------------------------------------- Set.Pop
CallPop(t, s) == Call(t, s, "Pop", <<>>, 0, "Pop_size", 0)

\* if s.Size() == 0 { return "" }
Pop_size(t) ==
    LET me == th[t]
    IN /\ me.pc = "Pop_size"
       /\ ~Aborted
       /\ IF Size(me.s) = 0
          THEN Return(t, EmptyStr, TRUE, Sets, Length, heap)
          ELSE Step(t, [me EXCEPT !.pc = "Pop_first", !.i = 0], Sets, Length, heap)

\* i := 0; set := s.Sets[i]
Pop_first(t) ==
    LET me == th[t]
    IN /\ me.pc = "Pop_first"
       /\ Step(t, [me EXCEPT !.pc = "Pop_scan", !.set = Sets[me.s][0]], Sets, Length, heap)

\* for set.Size() == 0
Pop_scan(t) ==
    LET me == th[t]
    IN /\ me.pc = "Pop_scan"
       /\ Step(t, [me EXCEPT !.pc = IF setSize(heap[me.set]) = 0 THEN "Pop_next"
                                    ELSE "Pop_lock"],
               Sets, Length, heap)

\* i++; set = s.Sets[i]: an index past the last bucket panics
Pop_next(t) ==
    LET me == th[t]
    IN /\ me.pc = "Pop_next"
       /\ Step(t, IF me.i + 1 \in BucketIdx
                  THEN [me EXCEPT !.pc = "Pop_scan", !.i = @ + 1, !.set = Sets[me.s][me.i + 1]]
                  ELSE [me EXCEPT !.pc = "panic", !.i = @ + 1, !.set = 0],
               Sets, Length, heap)

\* set.Lock()
Pop_lock(t) == LockStep(t, "Pop_lock", "Pop_do", "Pop_wait")
Pop_wait(t) == WaitStep(t, "Pop_wait", "Pop_do")

\* res := set.Pop()
Pop_do(t) ==
    LET me == th[t]
    IN /\ me.pc = "Pop_do"
       /\ \E item \in setPopChoices(heap[me.set]) :
             LET r == setPop(heap[me.set], item)
             IN Step(t, [me EXCEPT !.pc = "Pop_unlock", !.res = r.ret],
                     Sets, Length, [heap EXCEPT ![me.set] = r.set])

\* set.Unlock()
Pop_unlock(t) ==
    LET me == th[t]
    IN /\ me.pc = "Pop_unlock"
       /\ Step(t, [me EXCEPT !.pc = "Pop_len", !.set = 0],
               Sets, Length, [heap EXCEPT ![me.set] = MutexUnlock(@)])

\* if res != "" { atomic.AddUint64(&s.Length, ^uint64(0)); return res }; return ""
Pop_len(t) ==
    LET me == th[t]
    IN /\ me.pc = "Pop_len"
       /\ ~Aborted
       /\ IF me.res # EmptyStr
          THEN Return(t, me.res, TRUE, Sets,
                      [Length EXCEPT ![me.s] = AddUint64(@, Not64(0))], heap)
          ELSE Return(t, EmptyStr, TRUE, Sets, Length, heap)

PopSteps(t) ==
    \/ Pop_size(t) \/ Pop_first(t) \/ Pop_scan(t) \/ Pop_next(t) \/ Pop_lock(t)
    \/ Pop_do(t) \/ Pop_unlock(t) \/ Pop_len(t)

\* ---------------------------------------------------------- SetNonTS.Pop
\* The set of part_000 has the fields of Set (Sets, Buckets, Length) and takes
\* no lock: one goroutine uses it.
CallPopNonTS(t, s) == Call(t, s, "PopNonTS", <<>>, 0, "PopNonTS_rand", 0)

\* i := rand.Intn(s.Buckets): any index in [0, Buckets)
PopNonTS_rand(t) ==
    LET me == th[t]
    IN /\ me.pc = "PopNonTS_rand"
       /\ \E i \in BucketIdx :
             Step(t, [me EXCEPT !.pc = "PopNonTS_bound", !.i = i], Sets, Length, heap)

\* for true { if i >= s.Buckets { return "" }; set := s.Sets[i]
PopNonTS_bound(t) ==
    LET me == th[t]
    IN /\ me.pc = "PopNonTS_bound"
       /\ ~Aborted
       /\ IF me.i >= Buckets
          THEN Return(t, EmptyStr, TRUE, Sets, Length, heap)
          ELSE Step(t, [me EXCEPT !.pc = "PopNonTS_pop", !.set = Sets[me.s][me.i]],
                    Sets, Length, heap)

\* if res := set.Pop(); res != "" { atomic.AddUint64(&s.Length, ^uint64(0));
\* return res }; i++
PopNonTS_pop(t) ==
    LET me == th[t]
    IN /\ me.pc = "PopNonTS_pop"
       /\ ~Aborted
       /\ \E item \in setPopChoices(heap[me.set]) :
             LET r == setPop(heap[me.set], item)
                 nh == [heap EXCEPT ![me.set] = r.set]
             IN IF r.ret # EmptyStr
                THEN Return(t, r.ret, TRUE, Sets,
                            [Length EXCEPT ![me.s] = AddUint64(@, Not64(0))], nh)
                ELSE Step(t, [me EXCEPT !.pc = "PopNonTS_bound", !.i = @ + 1, !.set = 0],
                          Sets, Length, nh)

PopNonTSSteps(t) == PopNonTS_rand(t) \/ PopNonTS_bound(t) \/ PopNonTS_pop(t)

\* -------------------------------------------------------------- Set.Has
CallHas(t, s, items) == Call(t, s, "Has", items, 0, "Has_size", 1)

\* if s.Size() == 0 { return false }; has := true; with no item the loop is
\* skipped and has is returned
Has_size(t) ==
    LET me == th[t]
    IN /\ me.pc = "Has_size"
       /\ ~Aborted
       /\ IF Size(me.s) = 0
          THEN Return(t, "", FALSE, Sets, Length, heap)
          ELSE IF me.items = <<>>
               THEN Return(t, "", TRUE, Sets, Length, heap)
               ELSE Step(t, [me EXCEPT !.pc = "Has_get", !.ok = TRUE], Sets, Length, heap)

\* set := s.GetSet(item)
Has_get(t) ==
    LET me == th[t]
    IN /\ me.pc = "Has_get"
       /\ Step(t, [me EXCEPT !.pc = "Has_rlock", !.set = GetSet(me.s, me.items[me.i])],
               Sets, Length, heap)

\* set.RLock()
Has_rlock(t) == RLockStep(t, "Has_rlock", "Has_do", th[t].set)

\* if !set.Has(item) { has = false }
Has_do(t) ==
    LET me == th[t]
    IN /\ me.pc = "Has_do"
       /\ Step(t, [me EXCEPT !.pc = "Has_runlock",
                             !.ok = setHas(heap[me.set], <<me.items[me.i]>>)],
               Sets, Length, heap)

\* set.RUnlock(); break on a miss, else the next item; return has
Has_runlock(t) ==
    LET me == th[t]
        nh == [heap EXCEPT ![me.set] = MutexRUnlock(@)]
    IN /\ me.pc = "Has_runlock"
       /\ ~Aborted
       /\ IF ~me.ok \/ me.i + 1 > Len(me.items)
          THEN Return(t, "", me.ok, Sets, Length, nh)
          ELSE Step(t, [me EXCEPT !.pc = "Has_get", !.i = @ + 1, !.set = 0],
                    Sets, Length, nh)

HasSteps(t) ==
    \/ Has_size(t) \/ Has_get(t) \/ Has_rlock(t) \/ Has_do(t) \/ Has_runlock(t)

\* ------------------------------------------------------------ Set.Clear
CallClear(t, s) == Call(t, s, "Clear", <<>>, 0, "Clear_get", 0)

\* for i := range s.Sets { set := s.Sets[i]
Clear_get(t) ==
    LET me == th[t]
    IN /\ me.pc = "Clear_get"
       /\ Step(t, [me EXCEPT !.pc = "Clear_size", !.set = Sets[me.s][me.i]],
               Sets, Length, heap)

\* setLength := set.Size()
Clear_size(t) ==
    LET me == th[t]
    IN /\ me.pc = "Clear_size"
       /\ Step(t, [me EXCEPT !.pc = "Clear_lock", !.setLength = setSize(heap[me.set])],
               Sets, Length, heap)

\* set.Lock()
Clear_lock(t) == LockStep(t, "Clear_lock", "Clear_store", "Clear_wait")
Clear_wait(t) == WaitStep(t, "Clear_wait", "Clear_store")

\* s.Sets[i] = newSet()
Clear_store(t) ==
    LET me == th[t]
    IN /\ me.pc = "Clear_store"
       /\ Step(t, [me EXCEPT !.pc = "Clear_len"],
               [Sets EXCEPT ![me.s][me.i] = Alloc(Sets, th)], Length, heap)

\* atomic.AddUint64(&s.Length, ^uint64(setLength-1))
Clear_len(t) ==
    LET me == th[t]
    IN /\ me.pc = "Clear_len"
       /\ Step(t, [me EXCEPT !.pc = "Clear_unlock"], Sets,
               [Length EXCEPT ![me.s] = AddUint64(@, Not64(ToUint64(me.setLength - 1)))],
               heap)

\* set.Unlock(), and the next bucket
Clear_unlock(t) ==
    LET me == th[t]
        nh == [heap EXCEPT ![me.set] = MutexUnlock(@)]
    IN /\ me.pc = "Clear_unlock"
       /\ ~Aborted
       /\ IF me.i + 1 >= Buckets
          THEN Return(t, "", TRUE, Sets, Length, nh)
          ELSE Step(t, [me EXCEPT !.pc = "Clear_get", !.i = @ + 1, !.set = 0,
                                 !.setLength = 0],
                    Sets, Length, nh)

ClearSteps(t) ==
    \/ Clear_get(t) \/ Clear_size(t) \/ Clear_lock(t) \/ Clear_store(t)
    \/ Clear_len(t) \/ Clear_unlock(t)

\* ---------------------------------------------------------- Set.IsEqual
CallIsEqual(t, s, o) == Call(t, s, "IsEqual", <<>>, o, "Eq_size", 0)

\* s.Size() ...
Eq_size(t) ==
    LET me == th[t]
    IN /\ me.pc = "Eq_size"
       /\ Step(t, [me EXCEPT !.pc = "Eq_size2", !.count = Size(me.s)], Sets, Length, heap)

\* ... != t.Size() { return false }
Eq_size2(t) ==
    LET me == th[t]
    IN /\ me.pc = "Eq_size2"
       /\ ~Aborted
       /\ IF me.count # Size(me.t)
          THEN Return(t, "", FALSE, Sets, Length, heap)
          ELSE Step(t, [me EXCEPT !.pc = "Eq_bget1", !.i = 0], Sets, Length, heap)

\* s.Sets[i] ...
Eq_bget1(t) ==
    LET me == th[t]
    IN /\ me.pc = "Eq_bget1"
       /\ Step(t, [me EXCEPT !.pc = "Eq_bsize1", !.set = Sets[me.s][me.i]],
               Sets, Length, heap)

\* ... .Size()
Eq_bsize1(t) ==
    LET me == th[t]
    IN /\ me.pc = "Eq_bsize1"
       /\ Step(t, [me EXCEPT !.pc = "Eq_bget2", !.setLength = setSize(heap[me.set])],
               Sets, Length, heap)

\* t.Sets[i] ...
Eq_bget2(t) ==
    LET me == th[t]
    IN /\ me.pc = "Eq_bget2"
       /\ Step(t, [me EXCEPT !.pc = "Eq_bsize2", !.tSet = Sets[me.t][me.i]],
               Sets, Length, heap)

\* ... .Size() differs { return false }; i++
Eq_bsize2(t) ==
    LET me == th[t]
    IN /\ me.pc = "Eq_bsize2"
       /\ ~Aborted
       /\ IF me.setLength # setSize(heap[me.tSet])
          THEN Return(t, "", FALSE, Sets, Length, heap)
          ELSE Step(t, [me EXCEPT !.pc = IF me.i + 1 < Buckets THEN "Eq_bget1" ELSE "Eq_get1",
                                 !.i = IF me.i + 1 < Buckets THEN me.i + 1 ELSE 0,
                                 !.set = 0, !.tSet = 0, !.setLength = 0, !.ok = TRUE],
                    Sets, Length, heap)

\* sSet = s.Sets[i]
Eq_get1(t) ==
    LET me == th[t]
    IN /\ me.pc = "Eq_get1"
       /\ Step(t, [me EXCEPT !.pc = "Eq_get2", !.set = Sets[me.s][me.i]], Sets, Length, heap)

\* tSet = t.Sets[i]
Eq_get2(t) ==
    LET me == th[t]
    IN /\ me.pc = "Eq_get2"
       /\ Step(t, [me EXCEPT !.pc = "Eq_rlock1", !.tSet = Sets[me.t][me.i]],
               Sets, Length, heap)

\* sSet.RLock()
Eq_rlock1(t) == RLockStep(t, "Eq_rlock1", "Eq_rlock2", th[t].set)
\* tSet.RLock()
Eq_rlock2(t) == RLockStep(t, "Eq_rlock2", "Eq_cmp", th[t].tSet)

\* for item := range sSet.Storage { if _, ok := tSet.Storage[item]; !ok { equal = false
Eq_cmp(t) ==
    LET me == th[t]
    IN /\ me.pc = "Eq_cmp"
       /\ Step(t, [me EXCEPT !.pc = "Eq_runlock1",
                             !.ok = (heap[me.set].Storage \subseteq heap[me.tSet].Storage)],
               Sets, Length, heap)

\* sSet.RUnlock()
Eq_runlock1(t) ==
    LET me == th[t]
    IN /\ me.pc = "Eq_runlock1"
       /\ Step(t, [me EXCEPT !.pc = "Eq_runlock2"],
               Sets, Length, [heap EXCEPT ![me.set] = MutexRUnlock(@)])

\* tSet.RUnlock(); break Loop on a miss, else the next bucket; return equal
Eq_runlock2(t) ==
    LET me == th[t]
        nh == [heap EXCEPT ![me.tSet] = MutexRUnlock(@)]
    IN /\ me.pc = "Eq_runlock2"
       /\ ~Aborted
       /\ IF ~me.ok \/ me.i + 1 >= Buckets
          THEN Return(t, "", me.ok, Sets, Length, nh)
          ELSE Step(t, [me EXCEPT !.pc = "Eq_get1", !.i = @ + 1, !.set = 0, !.tSet = 0],
                    Sets, Length, nh)

IsEqualSteps(t) ==
    \/ Eq_size(t) \/ Eq_size2(t) \/ Eq_bget1(t) \/ Eq_bsize1(t) \/ Eq_bget2(t)
    \/ Eq_bsize2(t) \/ Eq_get1(t) \/ Eq_get2(t) \/ Eq_rlock1(t) \/ Eq_rlock2(t)
    \/ Eq_cmp(t) \/ Eq_runlock1(t) \/ Eq_runlock2(t)

\* ------------------------------------------------------------- Set.Each
\* The visitor f is given by the items it returns false for: f(item) is
\* item \notin stop.
CallEach(t, s, stop) == Call(t, s, "Each", stop, 0, "Each_get", 0)

\* for i := 0; i < s.Buckets; i++ { for item := range s.Sets[i].Storage: the
\* range starts with every key of the bucket's map still to come
Each_get(t) ==
    LET me == th[t]
    IN /\ me.pc = "Each_get"
       /\ Step(t, [me EXCEPT !.pc = "Each_range", !.set = Sets[me.s][me.i],
                             !.pend = heap[Sets[me.s][me.i]].Storage],
               Sets, Length, heap)

\* The range yields a key not yet yielded (in no specified order) and f is
\* called on it: if !f(item) { break } leaves this range only.  An exhausted
\* or left range is followed by the next bucket, the last one by the return.
Each_range(t) ==
    LET me == th[t]
    IN /\ me.pc = "Each_range"
       /\ ~Aborted
       /\ IF me.pend # {}
          THEN \E item \in me.pend :
                  Step(t, [me EXCEPT !.seen = Append(@, item),
                                     !.pend = IF item \in Range(me.items) THEN {}
                                              ELSE me.pend \ {item}],
                       Sets, Length, heap)
          ELSE IF me.i + 1 < Buckets
               THEN Step(t, [me EXCEPT !.pc = "Each_get", !.i = @ + 1, !.set = 0],
                         Sets, Length, heap)
               ELSE Return(t, "", TRUE, Sets, Length, heap)

EachSteps(t) == Each_get(t) \/ Each_range(t)

\* --------------------------------------------- reads made without a lock
\* Goroutine u is about to write the map of bucket o (under o's lock): an
\* insertion of a new key, or a deletion of a stored one.
WritesMap(u, o) ==
    LET me == th[u]
    IN /\ me.set = o
       /\ \/ me.pc = "Add_do" /\ me.items[me.i] \notin heap[o].Storage
          \/ me.pc = "Remove_do" /\ me.items[me.i] \in heap[o].Storage
          \/ me.pc = "Pop_do" /\ heap[o].Storage # {}

\* A range over the map of bucket o by goroutine t, which holds no lock, while
\* another goroutine writes that map: the Go runtime may stop the process
\* (fatal error: concurrent map iteration and map write).
RacyRange(t, o) == \E u \in Threads \ {t} : WritesMap(u, o)

\* The orders a range over the keys S of a map may yield them in.
Orders(S) ==
    {f \in [1..Cardinality(S) -> S] : \A a, b \in 1..Cardinality(S) : a # b => f[a] # f[b]}

\* (s *set) List(): the keys of the bucket's map, in the order the range
\* yields them
setList(b) == Orders(b.Storage)

\* The range over bucket o's map by goroutine t is cut short by the runtime.
RangeFault(t, me, o) ==
    /\ RacyRange(t, o)
    /\ Step(t, [me EXCEPT !.pc = "panic"], Sets, Length, heap)

\* ------------------------------------------------------------- Set.List
CallList(t, s) == Call(t, s, "List", <<>>, 0, "List_get", 0)

\* for i < s.Buckets { for item := range s.Sets[i].Storage { list = append(list, item) } }
\* one bucket at a time; after the last bucket Copy goes on to New(list...)
List_get(t) ==
    LET me == th[t]
        o == Sets[me.s][me.bi]
    IN /\ me.pc = "List_get"
       /\ \/ \E list \in setList(heap[o]) :
                Step(t, [me EXCEPT !.seen = @ \o list, !.bi = @ + 1,
                                   !.pc = IF me.bi + 1 < Buckets THEN "List_get"
                                          ELSE IF me.op = "Copy" THEN "Copy_new"
                                          ELSE "List_ret"],
                     Sets, Length, heap)
          \/ RangeFault(t, me, o)

\* return list
List_ret(t) ==
    /\ th[t].pc = "List_ret"
    /\ ~Aborted
    /\ Return(t, "", TRUE, Sets, Length, heap)

ListSteps(t) == List_get(t) \/ List_ret(t)

\* ------------------------------------------------------------- Set.Copy
\* c = s.Copy(): the Set variable c is assigned the Set New(s.List()...) makes.
CallCopy(t, s, c) == Call(t, s, "Copy", <<>>, c, "List_get", 0)

\* The Buckets buckets NewNonTS() makes: objects nothing points to.
NewSets(S, T) ==
    LET free == ObjIds \ Refs(S, T)
        nth(i) == CHOOSE o \in free : Cardinality({q \in free : q < o}) = i
    IN [i \in BucketIdx |-> nth(i)]

\* New(list...): s := (*Set)(NewNonTS()), assigned to c when New returns; then
\* s.Add(items...) on it
Copy_new(t) ==
    LET me == th[t]
    IN /\ me.pc = "Copy_new"
       /\ Step(t, [me EXCEPT !.pc = IF me.seen = <<>> THEN "Add_len" ELSE "Add_get",
                             !.s = me.t, !.t = me.s, !.items = me.seen, !.i = 1,
                             !.count = 0, !.bi = 0],
               [Sets EXCEPT ![me.t] = NewSets(Sets, th)],
               [Length EXCEPT ![me.t] = 0], heap)

CopySteps(t) == List_get(t) \/ Copy_new(t)

\* --------------------------------------------------- Set.Merge, Set.Separate
CallMerge(t, s, o) == Call(t, s, "Merge", <<>>, o, "Merge_list", 0)
CallSeparate(t, s, o) == Call(t, s, "Separate", <<>>, o, "Separate_list", 0)

\* s.Add(t.Sets[i].List()...): the list is made without a lock, then Add is
\* called with it
Merge_list(t) ==
    LET me == th[t]
        o == Sets[me.t][me.bi]
    IN /\ me.pc = "Merge_list"
       /\ \/ \E list \in setList(heap[o]) :
                Step(t, [me EXCEPT !.pc = IF list = <<>> THEN "Add_len" ELSE "Add_get",
                                   !.items = list, !.i = 1, !.count = 0,
                                   !.ret = "Merge_next"],
                     Sets, Length, heap)
          \/ RangeFault(t, me, o)

\* s.Remove(t.Sets[i].List()...)
Separate_list(t) ==
    LET me == th[t]
        o == Sets[me.t][me.bi]
    IN /\ me.pc = "Separate_list"
       /\ \/ \E list \in setList(heap[o]) :
                Step(t, [me EXCEPT !.pc = IF list = <<>> THEN "Remove_len" ELSE "Remove_get",
                                   !.items = list, !.i = 1, !.count = 0,
                                   !.ret = "Separate_next"],
                     Sets, Length, heap)
          \/ RangeFault(t, me, o)

\* i++; i < s.Buckets, or the method returns
LoopNext(t, at, body) ==
    LET me == th[t]
    IN /\ me.pc = at
       /\ ~Aborted
       /\ IF me.bi + 1 < Buckets
          THEN Step(t, [me EXCEPT !.pc = body, !.bi = @ + 1], Sets, Length, heap)
          ELSE Return(t, "", TRUE, Sets, Length, heap)

Merge_next(t) == LoopNext(t, "Merge_next", "Merge_list")
Separate_next(t) == LoopNext(t, "Separate_next", "Separate_list")

MergeSteps(t) == Merge_list(t) \/ Merge_next(t)
SeparateSteps(t) == Separate_list(t) \/ Separate_next(t)

\* ------------------------------------------- Set.IsSubset, Set.IsSuperset
CallIsSubset(t, s, o) == Call(t, s, "IsSubset", <<>>, o, "Sub_size", 0)
\* s.IsSuperset(t) is t.IsSubset(s)
CallIsSuperset(t, s, o) == Call(t, o, "IsSuperset", <<>>, s, "Sub_size", 0)

\* t.Size() ...
Sub_size(t) ==
    LET me == th[t]
    IN /\ me.pc = "Sub_size"
       /\ Step(t, [me EXCEPT !.pc = "Sub_size2", !.count = Size(me.t)], Sets, Length, heap)

\* ... > s.Size() { return false }; subset = true
Sub_size2(t) ==
    LET me == th[t]
    IN /\ me.pc = "Sub_size2"
       /\ ~Aborted
       /\ IF me.count > Size(me.s)
          THEN Return(t, "", FALSE, Sets, Length, heap)
          ELSE Step(t, [me EXCEPT !.pc = "Sub_get", !.count = 0, !.sub = TRUE],
                    Sets, Length, heap)

\* for i < t.Buckets { for item := range t.Sets[i].Storage: the range begins,
\* with no lock held
Sub_get(t) ==
    LET me == th[t]
        o == Sets[me.t][me.bi]
    IN /\ me.pc = "Sub_get"
       /\ \/ Step(t, [me EXCEPT !.pc = "Sub_range", !.pend = heap[o].Storage],
                  Sets, Length, heap)
          \/ RangeFault(t, me, o)

\* The range yields a key and s.Has(item) is called; an exhausted or left
\* range is followed by the next bucket, the last one by return subset.
Sub_range(t) ==
    LET me == th[t]
    IN /\ me.pc = "Sub_range"
       /\ ~Aborted
       /\ IF me.pend # {}
          THEN \E item \in me.pend :
                  Step(t, [me EXCEPT !.pc = "Has_size", !.pend = @ \ {item},
                                     !.items = <<item>>, !.i = 1, !.ret = "Sub_has"],
                       Sets, Length, heap)
          ELSE IF me.bi + 1 < Buckets
               THEN Step(t, [me EXCEPT !.pc = "Sub_get", !.bi = @ + 1], Sets, Length, heap)
               ELSE Return(t, "", me.sub, Sets, Length, heap)

\* if !s.Has(item) { subset = false; break }
Sub_has(t) ==
    LET me == th[t]
    IN /\ me.pc = "Sub_has"
       /\ Step(t, IF me.ok THEN [me EXCEPT !.pc = "Sub_range"]
                  ELSE [me EXCEPT !.pc = "Sub_range", !.sub = FALSE, !.pend = {}, !.ok = TRUE],
               Sets, Length, heap)

IsSubsetSteps(t) ==
    \/ Sub_size(t) \/ Sub_size2(t) \/ Sub_get(t) \/ Sub_range(t) \/ Sub_has(t)

\* --------------------------------------------------------- the initial state
\* s.Add(items...) run alone on the buckets `slots`: the heap it leaves and the
\* count it adds to Length.
RECURSIVE AddAll(_, _, _)
AddAll(h, slots, items) ==
    IF items = <<>> THEN [heap |-> h, count |-> 0]
    ELSE LET o == slots[hash(Head(items), Buckets)]
             r == setAdd(h[o], <<Head(items)>>)
             rest == AddAll([h EXCEPT ![o] = r.set], slots, Tail(items))
         IN [heap |-> rest.heap, count |-> r.ret + rest.count]

\* New(xs[s]...) for each Set s, no goroutine running yet.
InitNew(m, xs) ==
    LET h1 == AddAll([o \in ObjIds |-> newSet], NewNonTS(1), xs[1])
        h2 == AddAll(h1.heap, NewNonTS(2), xs[2])
    IN /\ Sets = [s \in SetIds |-> NewNonTS(s)]
       /\ Length = [s \in SetIds |-> IF s = 1 THEN ToUint64(h1.count) ELSE ToUint64(h2.count)]
       /\ heap = h2.heap
       /\ th = [t \in Threads |-> IdleTh]
       /\ last = [t \in Threads |-> NoLast]
       /\ pre = [t \in Threads |-> NoPre]
       /\ added = NoAdded
       /\ done = [t \in Threads |-> 0]
       /\ ops = 0
       /\ mode = m
       /\ alg = NoAlg
       /\ popped = [NoPopped EXCEPT !.from = IF m = "pops" THEN Range(xs[1]) ELSE {}]

InitMode(m) == InitNew(m, [s \in SetIds |-> <<>>])

\* ------------------------------------------ set_ts_operations.go: the algebra
\* The Set s of the state, as the value a function is passed.
ValueOf(s) == [Sets |-> [i \in BucketIdx |-> heap[Sets[s][i]]], Length |-> Length[s]]
\* (s *Set) Size() of a Set value
SizeV(V) == ToInt(V.Length)
\* The items a Set value stores.
MembersV(V) == UNION {V.Sets[i].Storage : i \in BucketIdx}

\* result.Add(items...) with nothing else running
AddV(V, items) ==
    LET r == AddAll(V.Sets, [i \in BucketIdx |-> i], items)
    IN [Sets |-> r.heap, Length |-> AddUint64(V.Length, ToUint64(r.count))]

\* the loop of Set.Has: has = false and break at the first item its bucket lacks
RECURSIVE HasLoopV(_, _)
HasLoopV(V, items) ==
    IF items = <<>> THEN TRUE
    ELSE IF ~setHas(V.Sets[hash(Head(items), Buckets)], <<Head(items)>>) THEN FALSE
         ELSE HasLoopV(V, Tail(items))

\* set.Has(items...) with nothing else running
HasV(V, items) == IF SizeV(V) = 0 THEN FALSE ELSE HasLoopV(V, items)

\* Union's visitor with its test inverted
UnionVisitInverted(result, item) ==
    IF HasV(result, <<item>>) THEN AddV(result, <<item>>) ELSE result

\* Union's visitor: if !result.Has(item) { result.Add(item) }
UnionVisit(result, item) ==
    IF ~HasV(result, <<item>>) THEN AddV(result, <<item>>) ELSE result

\* Difference's loop without the skip of index 0
RECURSIVE inDifferenceNoSkip(_, _, _)
inDifferenceNoSkip(sets, i, item) ==
    IF i > Len(sets) THEN TRUE
    ELSE IF HasV(sets[i], <<item>>) THEN FALSE
    ELSE inDifferenceNoSkip(sets, i + 1, item)

\* Difference's loop over sets: index 0 is skipped, a set that has the item
\* ends it.  (Sequences are 1-based: sets[1] is the code's sets[0].)
RECURSIVE inDifference(_, _, _)
inDifference(sets, i, item) ==
    IF i > Len(sets) THEN TRUE
    ELSE IF i = 1 THEN inDifference(sets, i + 1, item)
    ELSE IF HasV(sets[i], <<item>>) THEN FALSE
    ELSE inDifference(sets, i + 1, item)

\* Difference's visitor
DifferenceVisit(result, sets, item) ==
    IF inDifference(sets, 1, item) THEN AddV(result, <<item>>) ELSE result

\* Intersection's loop skipping index 0, as Difference's does, instead of
\* smallestIndex
RECURSIVE inIntersectionSkipsFirst(_, _, _, _)
inIntersectionSkipsFirst(sets, smallestIndex, i, item) ==
    IF i > Len(sets) THEN TRUE
    ELSE IF i = 1 THEN inIntersectionSkipsFirst(sets, smallestIndex, i + 1, item)
    ELSE IF ~HasV(sets[i], <<item>>) THEN FALSE
    ELSE inIntersectionSkipsFirst(sets, smallestIndex, i + 1, item)

\* Intersection's loop over sets: smallestIndex is skipped, a set that lacks
\* the item ends it.
RECURSIVE inIntersection(_, _, _, _)
inIntersection(sets, smallestIndex, i, item) ==
    IF i > Len(sets) THEN TRUE
    ELSE IF i = smallestIndex THEN inIntersection(sets, smallestIndex, i + 1, item)
    ELSE IF ~HasV(sets[i], <<item>>) THEN FALSE
    ELSE inIntersection(sets, smallestIndex, i + 1, item)

\* Intersection's visitor
IntersectionVisit(result, sets, smallestIndex, item) ==
    IF inIntersection(sets, smallestIndex, 1, item) THEN AddV(result, <<item>>) ELSE result

\* getSmallestSet's loop: if set.Size() < smallestLen || smallestLen == 0
RECURSIVE smallestLoop(_, _, _, _)
smallestLoop(sets, i, smallestLen, smallestIndex) ==
    IF i > Len(sets) THEN smallestIndex
    ELSE IF SizeV(sets[i]) < smallestLen \/ smallestLen = 0
         THEN smallestLoop(sets, i + 1, SizeV(sets[i]), i)
         ELSE smallestLoop(sets, i + 1, smallestLen, smallestIndex)

\* getSmallestSet(sets...), as a 1-based index
getSmallestSet(sets) == smallestLoop(sets, 1, 0, 1)

\* A function is entered: result := New(), and the Each it makes on one of
\* its arguments begins (Union on each argument in turn, and on none when it
\* is passed no set).
Enter(a, fn, sets) ==
    [a EXCEPT !.op = fn, !.sets = sets, !.result = NewV, !.i = 0, !.pend = {},
              !.smallestIndex = IF fn = "Intersection" THEN getSmallestSet(sets) ELSE 0,
              !.k = IF fn = "Intersection" THEN getSmallestSet(sets) ELSE 1,
              !.pc = IF fn = "Union" /\ sets = <<>> THEN "return" ELSE "Each_get"]

\* The caller's goroutine is the only one, and it is between two calls.
AlgCall(fn, in, first, sets) ==
    /\ ~Aborted
    /\ th[1].pc = "idle"
    /\ alg.pc \in {"idle", "done"}
    /\ alg' = Enter([NoAlg EXCEPT !.call = fn, !.in = in, !.phase = 1], first, sets)
    /\ ops' = ops + 1
    /\ UNCHANGED <<Sets, Length, heap, th, last, pre, added, done, mode, popped>>

\* Union(sets...)
Union(ids) ==
    LET in == [j \in 1..Len(ids) |-> ValueOf(ids[j])] IN AlgCall("Union", in, "Union", in)
\* Difference(sets...)
Difference(ids) ==
    LET in == [j \in 1..Len(ids) |-> ValueOf(ids[j])]
    IN AlgCall("Difference", in, "Difference", in)
\* Intersection(sets...)
Intersection(ids) ==
    LET in == [j \in 1..Len(ids) |-> ValueOf(ids[j])]
    IN AlgCall("Intersection", in, "Intersection", in)
\* SymmetricDifference(s, t): u := Difference(s, t) comes first
SymmetricDifference(s, t) ==
    LET in == <<ValueOf(s), ValueOf(t)>>
    IN AlgCall("SymmetricDifference", in, "Difference", in)

AlgStep(a) ==
    /\ alg' = a
    /\ UNCHANGED <<Sets, Length, heap, th, last, pre, added, done, ops, mode, popped>>

\* set.Each: the range over the map of bucket i of the traversed set begins
Alg_get ==
    /\ alg.pc = "Each_get"
    /\ AlgStep([alg EXCEPT !.pc = "Each_range",
                           !.pend = alg.sets[alg.k].Sets[alg.i].Storage])

\* The range yields a key and the function's visitor is called on it; every
\* visitor returns true.
Alg_visit ==
    /\ alg.pc = "Each_range"
    /\ \E item \in alg.pend :
          AlgStep([alg EXCEPT
              !.pend = @ \ {item},
              !.result = CASE alg.op = "Union" -> UnionVisit(@, item)
                           [] alg.op = "Difference" -> DifferenceVisit(@, alg.sets, item)
                           [] alg.op = "Intersection" ->
                                IntersectionVisit(@, alg.sets, alg.smallestIndex, item)])

\* The range is exhausted: the next bucket; after the last bucket Each
\* returns, and Union goes on to its next argument.
Alg_next ==
    /\ alg.pc = "Each_range"
    /\ alg.pend = {}
    /\ AlgStep(IF alg.i + 1 < Buckets
               THEN [alg EXCEPT !.pc = "Each_get", !.i = @ + 1]
               ELSE IF alg.op = "Union" /\ alg.k < Len(alg.sets)
                    THEN [alg EXCEPT !.pc = "Each_get", !.i = 0, !.k = @ + 1]
                    ELSE [alg EXCEPT !.pc = "return"])

\* return result.  SymmetricDifference goes on: v := Difference(t, s), then
\* return Union(u, v).
Alg_return ==
    /\ alg.pc = "return"
    /\ AlgStep(IF alg.call = "SymmetricDifference" /\ alg.phase = 1
               THEN Enter([alg EXCEPT !.u = alg.result, !.phase = 2],
                          "Difference", <<alg.in[2], alg.in[1]>>)
               ELSE IF alg.call = "SymmetricDifference" /\ alg.phase = 2
               THEN Enter([alg EXCEPT !.phase = 3], "Union", <<alg.u, alg.result>>)
               ELSE [alg EXCEPT !.pc = "done"])

AlgSteps == Alg_get \/ Alg_visit \/ Alg_next \/ Alg_return

\* ------------------------------------------- N goroutines adding M items each
\* Goroutine t owns the items Strings[(t-1)*AddM + 1 .. t*AddM], so the N*M
\* items are pairwise distinct; it adds them in one or in several Add calls.
OwnItems(t, from, n) == [k \in 1..n |-> Strings[(t - 1) * AddM + from + k]]

NMCallAdd(t) ==
    \E n \in 1..(AddM - done[t]) : CallAdd(t, 1, OwnItems(t, done[t], n))

InitNM == InitMode("nm")
NextNM == \E t \in Threads : NMCallAdd(t) \/ AddSteps(t) \/ Add_wait(t)
SpecNM == InitNM /\ [][NextNM]_vars

\* --------------------------- goroutines racing Add, Remove, Pop and Clear
ConcArgs == {<<x>> : x \in ConcItems}
ConcInits == {<<>>, <<"a">>, <<"a", "b">>}

ConcCall(t) ==
    /\ ops < MaxOpsConc
    /\ \/ \E items \in ConcArgs : CallAdd(t, 1, items)
       \/ \E items \in ConcArgs : CallRemove(t, 1, items)
       \/ CallPop(t, 1)
       \/ CallClear(t, 1)

InitConc == \E xs \in ConcInits : InitNew("conc", [s \in SetIds |-> IF s = 1 THEN xs ELSE <<>>])
NextConc ==
    \E t \in Threads :
        \/ ConcCall(t)
        \/ AddSteps(t) \/ RemoveSteps(t) \/ PopSteps(t) \/ ClearSteps(t)
        \/ Add_wait(t) \/ Remove_wait(t) \/ Pop_wait(t) \/ Clear_wait(t)
SpecConc == InitConc /\ [][NextConc]_vars

\* ------------- a few racing calls of Add, Remove, Pop and Clear on one Set
\* Every goroutine adds, removes and pops; goroutine 1 is the one that clears.
BktCall(t) ==
    /\ ops < MaxOpsBkt
    /\ \/ \E items \in ConcArgs : CallAdd(t, 1, items)
       \/ \E items \in ConcArgs : CallRemove(t, 1, items)
       \/ CallPop(t, 1)
       \/ t = 1 /\ CallClear(t, 1)

InitBkt == InitConc
NextBkt ==
    \E t \in Threads :
        \/ BktCall(t)
        \/ AddSteps(t) \/ RemoveSteps(t) \/ PopSteps(t) \/ ClearSteps(t)
        \/ Add_wait(t) \/ Remove_wait(t) \/ Pop_wait(t) \/ Clear_wait(t)
SpecBkt == InitBkt /\ [][NextBkt]_vars

\* ------------------------------ goroutines racing Pop, and nothing else
\* The Set is made with distinct items, none of them the empty string.
PopsInits == {<<>>, <<"a">>, <<"a", "b">>, <<"a", "c">>, <<"a", "b", "c">>}

PopsCall(t) == ops < MaxOpsPops /\ CallPop(t, 1)

InitPops == \E xs \in PopsInits : InitNew("pops", [s \in SetIds |-> IF s = 1 THEN xs ELSE <<>>])
NextPops == \E t \in Threads : PopsCall(t) \/ PopSteps(t) \/ Pop_wait(t)
SpecPops == InitPops /\ [][NextPops]_vars

\* --------------------- goroutines on two Sets, IsEqual and Has among the calls
LockInits == {<<>>, <<"a">>}

LockCall(t) ==
    /\ ops < MaxOpsLock
    /\ \E s \in SetIds :
         \/ \E items \in ConcArgs : CallAdd(t, s, items)
         \/ \E items \in ConcArgs : CallRemove(t, s, items)
         \/ CallPop(t, s)
         \/ CallClear(t, s)
         \/ \E items \in ConcArgs : CallHas(t, s, items)
         \/ \E o \in SetIds : CallIsEqual(t, s, o)

InitLock == \E xs \in [SetIds -> LockInits] : InitNew("lock", xs)
NextLock ==
    \E t \in Threads :
        \/ LockCall(t)
        \/ AddSteps(t) \/ RemoveSteps(t) \/ PopSteps(t) \/ ClearSteps(t)
        \/ HasSteps(t) \/ IsEqualSteps(t)
        \/ Add_wait(t) \/ Remove_wait(t) \/ Pop_wait(t) \/ Clear_wait(t)
SpecLock == InitLock /\ [][NextLock]_vars

\* ------------------------------------------------ one goroutine: sequential use
Seqs(S, n) == UNION {[1..k -> S] : k \in 0..n}
SeqArgs == Seqs(SeqItems, MaxArgs)

SeqCall ==
    /\ ops < MaxOpsSeq
    /\ \/ \E items \in SeqArgs : CallAdd(1, 1, items)
       \/ \E items \in SeqArgs : CallRemove(1, 1, items)
       \/ \E items \in SeqArgs : CallHas(1, 1, items)
       \/ CallPop(1, 1)
       \/ CallClear(1, 1)

InitSeq == InitMode("seq")
NextSeq ==
    \/ SeqCall
    \/ AddSteps(1) \/ RemoveSteps(1) \/ PopSteps(1) \/ HasSteps(1) \/ ClearSteps(1)
SpecSeq == InitSeq /\ [][NextSeq]_vars

\* ------------------------------ New(xs...), then Add and Remove calls only
\* New: NewNonTS() and then s.Add(items...); the goroutine starts inside that Add.
AddRemArgs == Seqs(SeqItems, MaxArgsAddRem)

InitAddRem ==
    \E xs \in AddRemArgs :
        /\ Sets = [s \in SetIds |-> NewNonTS(s)]
        /\ Length = [s \in SetIds |-> 0]
        /\ heap = [o \in ObjIds |-> newSet]
        /\ th = [t \in Threads |->
                   IF t = 1
                   THEN [IdleTh EXCEPT !.pc = IF xs = <<>> THEN "Add_len" ELSE "Add_get",
                                       !.op = "New", !.s = 1, !.items = xs, !.i = 1]
                   ELSE IdleTh]
        /\ last = [t \in Threads |-> NoLast]
        /\ pre = [t \in Threads |-> NoPre]
        /\ added = NoAdded
        /\ done = [t \in Threads |-> 0]
        /\ ops = 0
        /\ mode = "addrem"
        /\ alg = NoAlg
        /\ popped = NoPopped

AddRemCall ==
    /\ ops < MaxOpsAddRem
    /\ \/ \E items \in AddRemArgs : CallAdd(1, 1, items)
       \/ \E items \in AddRemArgs : CallRemove(1, 1, items)

NextAddRem == AddRemCall \/ AddSteps(1) \/ RemoveSteps(1)
SpecAddRem == InitAddRem /\ [][NextAddRem]_vars

\* ------------------------------------------------- one goroutine calling Each
EachInits == {<<>>, <<"a">>, <<"b">>, <<"a", "b">>, <<"a", "c">>, <<"a", "b", "c">>}
EachStops == Seqs({"a", "b"}, MaxArgs)

EachCall ==
    /\ ops < MaxOpsEach
    /\ \E stop \in EachStops : CallEach(1, 1, stop)

InitEach == \E xs \in EachInits : InitNew("each", [s \in SetIds |-> IF s = 1 THEN xs ELSE <<>>])
NextEach == EachCall \/ EachSteps(1)
SpecEach == InitEach /\ [][NextEach]_vars

\* ------------------------------------- one goroutine popping a SetNonTS
\* The set is made with up to MaxArgs items, the empty string among them.
NonTSInits == Seqs({EmptyStr, "a", "b", "c"}, MaxArgs)

NonTSCall == ops < MaxOpsNonTS /\ CallPopNonTS(1, 1)

InitNonTS ==
    \E xs \in NonTSInits : InitNew("nonts", [s \in SetIds |-> IF s = 1 THEN xs ELSE <<>>])
NextNonTS == NonTSCall \/ PopNonTSSteps(1)
SpecNonTS == InitNonTS /\ [][NextNonTS]_vars

\* ------------------ one goroutine calling the functions of set_ts_operations.go
\* The arguments are the two Sets of the state, each as New(xs...) made it or
\* as a Pop has left it, in argument lists of up to MaxSets sets.
AlgInits == {<<>>, <<"">>, <<"a">>, <<"a", "b">>, <<"b", "c">>}
ArgLists == Seqs(SetIds, MaxSets)

AlgDriver ==
    /\ ops < MaxOpsAlg
    /\ \/ \E ids \in ArgLists : Union(ids)
       \/ \E ids \in ArgLists \ {<<>>} : Difference(ids)
       \/ \E ids \in ArgLists \ {<<>>} : Intersection(ids)
       \/ \E s, t \in SetIds : SymmetricDifference(s, t)
       \/ \E s \in SetIds : alg.pc = "idle" /\ CallPop(1, s)

InitAlg == \E xs \in [SetIds -> AlgInits] : InitNew("alg", xs)
NextAlg == AlgDriver \/ AlgSteps \/ PopSteps(1)
SpecAlg == InitAlg /\ [][NextAlg]_vars

\* --------------------------- one goroutine, two Sets: IsSubset, Merge, Separate
\* Each Set is as New(xs...) made it, or as Pop, Merge or Separate calls
\* have left it.
TwoCall ==
    /\ ops < MaxOpsTwo
    /\ \E s, o \in SetIds :
          \/ CallIsSubset(1, s, o)
          \/ CallIsSuperset(1, s, o)
          \/ CallMerge(1, s, o)
          \/ CallSeparate(1, s, o)
          \/ CallPop(1, s)

InitTwo == \E xs \in [SetIds -> AlgInits] : InitNew("two", xs)
NextTwo ==
    \/ TwoCall
    \/ IsSubsetSteps(1) \/ HasSteps(1) \/ MergeSteps(1) \/ AddSteps(1)
    \/ SeparateSteps(1) \/ RemoveSteps(1) \/ PopSteps(1)
SpecTwo == InitTwo /\ [][NextTwo]_vars

\* ------------------------------------------- one goroutine: c = s.Copy()
\* s is Set 1 and the variable c is Set 2, nil until the copy is made.  s is
\* as New(xs...) and then Add, Remove and Pop calls have left it; IsEqual is
\* called, either way round, right after the copy; then s and c are changed.
Copied == Sets[2][0] # 0

CopyCall ==
    /\ ops < MaxOpsCopy
    /\ \/ ~Copied /\ CallCopy(1, 1, 2)
       \/ last[1].op = "Copy" /\ \E s, o \in SetIds : s # o /\ CallIsEqual(1, s, o)
       \/ \E s \in SetIds :
             /\ s = 2 => Copied
             /\ \/ \E items \in ConcArgs \cup {<<EmptyStr>>} : CallAdd(1, s, items)
                \/ \E items \in ConcArgs \cup {<<EmptyStr>>} : CallRemove(1, s, items)
                \/ CallPop(1, s)
                \/ CallClear(1, s)

InitCopy ==
    \E xs \in AlgInits :
        LET h1 == AddAll([o \in ObjIds |-> newSet], NewNonTS(1), xs)
        IN /\ Sets = [s \in SetIds |-> IF s = 1 THEN NewNonTS(1) ELSE [i \in BucketIdx |-> 0]]
           /\ Length = [s \in SetIds |-> IF s = 1 THEN ToUint64(h1.count) ELSE 0]
           /\ heap = h1.heap
           /\ th = [t \in Threads |-> IdleTh]
           /\ last = [t \in Threads |-> NoLast]
           /\ pre = [t \in Threads |-> NoPre]
           /\ added = NoAdded
           /\ done = [t \in Threads |-> 0]
           /\ ops = 0
           /\ mode = "copy"
           /\ alg = NoAlg
           /\ popped = NoPopped

NextCopy ==
    \/ CopyCall
    \/ CopySteps(1) \/ IsEqualSteps(1) \/ AddSteps(1) \/ RemoveSteps(1) \/ PopSteps(1)
    \/ ClearSteps(1)
SpecCopy == InitCopy /\ [][NextCopy]_vars

\* ------------- goroutines on two Sets, every method of Set among the calls
RaceInits == {<<>>, <<"a">>}

RaceCall(t) ==
    /\ ops < MaxOpsRace
    /\ \E s \in SetIds :
         \/ \E items \in ConcArgs : CallAdd(t, s, items)
         \/ \E items \in ConcArgs : CallRemove(t, s, items)
         \/ CallPop(t, s)
         \/ CallClear(t, s)
         \/ \E items \in ConcArgs : CallHas(t, s, items)
         \/ CallList(t, s)
         \/ \E o \in SetIds : CallIsEqual(t, s, o)
         \/ \E o \in SetIds : CallIsSubset(t, s, o)
         \/ \E o \in SetIds : CallMerge(t, s, o)
         \/ \E o \in SetIds : CallSeparate(t, s, o)

InitRace == \E xs \in [SetIds -> RaceInits] : InitNew("race", xs)
NextRace ==
    \E t \in Threads :
        \/ RaceCall(t)
        \/ AddSteps(t) \/ RemoveSteps(t) \/ PopSteps(t) \/ ClearSteps(t)
        \/ HasSteps(t) \/ IsEqualSteps(t) \/ ListSteps(t) \/ IsSubsetSteps(t)
        \/ MergeSteps(t) \/ SeparateSteps(t)
        \/ Add_wait(t) \/ Remove_wait(t) \/ Pop_wait(t) \/ Clear_wait(t)
SpecRace == InitRace /\ [][NextRace]_vars

\* ------------------------------------------------------------------ claims
InFlight(t) == th[t].pc \notin {"idle", "panic"}

\* C1: whenever no operation is in flight, Length (what Size() returns) equals
\* the sum of the size counters of the installed buckets, which is the number
\* of distinct members.
C1_LengthIsSumOfBuckets ==
    Quiescent =>
        /\ Size(1) = SumSizes(1, Buckets)
        /\ Size(1) = Cardinality(Members(1))

\* C2: once each of the N goroutines has added its M items (all N*M distinct),
\* Size() is N*M and every added item is a member.
NMAllDone == \A t \in Threads : th[t].pc = "idle" /\ done[t] = AddM
C2_NoLostUpdate ==
    NMAllDone =>
        /\ Size(1) = NThreads * AddM
        /\ \A t \in Threads : \A k \in 1..AddM : OwnItems(t, 0, AddM)[k] \in Members(1)
\* All goroutines are done and some bucket holds items of two goroutines.
C2_AllAddedWithCollision ==
    /\ NMAllDone
    /\ \E i \in BucketIdx : \E t, u \in Threads :
         /\ t # u
         /\ \E k \in 1..AddM : OwnItems(t, 0, AddM)[k] \in heap[Sets[1][i]].Storage
         /\ \E k \in 1..AddM : OwnItems(u, 0, AddM)[k] \in heap[Sets[1][i]].Storage

\* C3: Size() is never negative.
C3_SizeNeverNegative == Size(1) >= 0

\* C4: no deadlock: while operations are in flight and the process has not
\* panicked, some operation in flight can take its next step (goroutines in
\* flight that are all blocked on bucket locks stay blocked for ever: only
\* goroutines in flight hold locks).
Blocked(t) ==
    \/ th[t].pc \in {"Add_wait", "Remove_wait", "Pop_wait", "Clear_wait"}
          /\ ~CanLock(heap[th[t].set])
    \/ th[t].pc \in {"Has_rlock", "Eq_rlock1"} /\ ~CanRLock(heap[th[t].set])
    \/ th[t].pc = "Eq_rlock2" /\ ~CanRLock(heap[th[t].tSet])
C4_DeadlockFree ==
    (~Aborted /\ \E t \in Threads : InFlight(t))
        => \E t \in Threads : InFlight(t) /\ ~Blocked(t)

\* C5: Pop never aborts: no goroutine panics, and the scan index of a Pop in
\* flight stays within [0, Buckets).
C5_PopNeverAborts ==
    \A t \in Threads :
        /\ th[t].pc # "panic"
        /\ th[t].op = "Pop" => th[t].i \in BucketIdx

\* The call goroutine 1 made last has returned and nothing runs.
Returned(op) == th[1].pc = "idle" /\ last[1].op = op

\* C6: in sequential use Pop on a set that holds an item returns a member,
\* takes exactly that item out and makes Size() one less; on a set that holds
\* no item it returns "" and changes nothing; it never aborts.
C6_PopTakesOneMember ==
    /\ th[1].op = "Pop" => th[1].pc # "panic"
    /\ Returned("Pop") =>
          IF pre[1].members # {}
          THEN /\ last[1].str \in pre[1].members
               /\ Members(1) = pre[1].members \ {last[1].str}
               /\ Size(1) = pre[1].size - 1
          ELSE /\ last[1].str = EmptyStr
               /\ Members(1) = pre[1].members
               /\ Size(1) = pre[1].size

\* C7 as claimed: Has of items that were added and, since then, neither
\* removed by Remove nor dropped by Clear returns true.
C7_HasAfterAdd ==
    (Returned("Has") /\ last[1].items # <<>> /\ Range(last[1].items) \subseteq added.claimed)
        => last[1].ok
\* C7 amended: in sequential use, Has of items that were added and, since
\* then, neither removed by Remove, nor dropped by Clear, nor returned by a
\* Pop, returns true.
C7_HasAfterAddUntilTakenOut ==
    (Returned("Has") /\ last[1].items # <<>> /\ Range(last[1].items) \subseteq added.amended)
        => last[1].ok
\* Has(x) returned true for an added x after a Pop had taken another added
\* item out.
C7_HasTrueAfterOtherPop ==
    /\ Returned("Has")
    /\ Len(last[1].items) = 1
    /\ last[1].items[1] \in added.amended
    /\ added.claimed # added.amended
    /\ last[1].ok

\* C8: Has with no item returns false on every Set; Has with items returns
\* true exactly when all of them are members.
C8_HasOfNothingIsFalse ==
    Returned("Has") =>
        IF last[1].items = <<>>
        THEN last[1].ok = FALSE
        ELSE last[1].ok = (Range(last[1].items) \subseteq Members(1))

\* C9: after New(xs...) and any Add and Remove calls, Size() is the number of
\* distinct members; the members are those the calls leave; an Add of items
\* already present and a Remove of absent items leave Size() unchanged.
C9_SizeIsDistinctCount ==
    th[1].pc = "idle" =>
        /\ Size(1) = Cardinality(Members(1))
        /\ last[1].op \in {"New", "Add"} =>
              /\ Members(1) = pre[1].members \cup Range(last[1].items)
              /\ Range(last[1].items) \subseteq pre[1].members => Size(1) = pre[1].size
        /\ last[1].op = "Remove" =>
              /\ Members(1) = pre[1].members \ Range(last[1].items)
              /\ Range(last[1].items) \cap pre[1].members = {} => Size(1) = pre[1].size
\* A Remove has returned whose argument list held a duplicate, an item that
\* was present and an item that was absent.
C9_MixedRemoveDone ==
    /\ Returned("Remove")
    /\ Cardinality(Range(last[1].items)) < Len(last[1].items)
    /\ Range(last[1].items) \cap pre[1].members # {}
    /\ Range(last[1].items) \ pre[1].members # {}

\* C10: when Clear() has returned in sequential use the set is empty: Size()
\* is 0 (IsEmpty) and no item is stored (List() is empty, Has(x) is false).
C10_ClearEmpties ==
    Returned("Clear") => Size(1) = 0 /\ Members(1) = {}

\* C11: once the visitor has returned false for an item, Each calls it for no
\* further item (every visited item but the last one had the visitor return
\* true); and when the visitor returns true for every member, each member is
\* visited exactly once.
C11_EachStopsOnFalse ==
    /\ th[1].op = "Each" =>
          \A k \in 1..(Len(th[1].seen) - 1) : th[1].seen[k] \notin Range(th[1].items)
    /\ (Returned("Each") /\ Range(last[1].items) \cap Members(1) = {}) =>
          /\ Range(last[1].seen) = Members(1)
          /\ Len(last[1].seen) = Cardinality(Members(1))

\* The function `fn` called last has returned alg.result for the arguments alg.in.
AlgDone(fn) == alg.pc = "done" /\ alg.call = fn

\* C12: Union returns a Set whose members are the items that are members of
\* at least one argument, whatever the order of the arguments; for two
\* arguments a, b its Size() is at most a.Size() + b.Size(), and equal to it
\* exactly when a and b have no member in common.
C12_UnionIsUnion ==
    AlgDone("Union") =>
        /\ MembersV(alg.result) = UNION {MembersV(alg.in[j]) : j \in 1..Len(alg.in)}
        /\ Len(alg.in) = 2 =>
              /\ SizeV(alg.result) <= SizeV(alg.in[1]) + SizeV(alg.in[2])
              /\ (SizeV(alg.result) = SizeV(alg.in[1]) + SizeV(alg.in[2]))
                    <=> (MembersV(alg.in[1]) \cap MembersV(alg.in[2]) = {})

\* C13: Difference returns a Set whose members are the items of the first
\* argument that are members of no other argument (empty arguments
\* included): Difference(a) has the members of a, Difference(a, a) has none.
C13_DifferenceIsFirstMinusOthers ==
    AlgDone("Difference") =>
        /\ MembersV(alg.result) =
              MembersV(alg.in[1]) \ UNION {MembersV(alg.in[j]) : j \in 2..Len(alg.in)}
        /\ Len(alg.in) = 1 => MembersV(alg.result) = MembersV(alg.in[1])
        /\ (Len(alg.in) = 2 /\ alg.in[1] = alg.in[2]) => MembersV(alg.result) = {}
\* A Difference of several sets has returned some, and not all, of the items
\* of its first argument.
C13_DifferenceDropsAndKeeps ==
    /\ AlgDone("Difference")
    /\ Len(alg.in) >= 2
    /\ MembersV(alg.result) # {}
    /\ MembersV(alg.result) # MembersV(alg.in[1])

\* C14: Intersection returns a Set whose members are the items that are
\* members of every argument, whichever argument getSmallestSet picks for the
\* scan, with empty and with repeated arguments, in any order of arguments.
C14_IntersectionIsInAll ==
    AlgDone("Intersection") =>
        MembersV(alg.result) =
            {x \in MembersV(alg.in[1]) : \A j \in 1..Len(alg.in) : x \in MembersV(alg.in[j])}
\* An Intersection has returned some, and not all, of the items of the set
\* it scanned.
C14_IntersectionDropsAndKeeps ==
    /\ AlgDone("Intersection")
    /\ MembersV(alg.result) # {}
    /\ MembersV(alg.result) # MembersV(alg.in[alg.smallestIndex])

\* C15: SymmetricDifference(a, b) returns a Set whose members are the items
\* that are members of exactly one of a and b, and whose Size() is their
\* number.
C15_SymmetricDifferenceIsExactlyOne ==
    AlgDone("SymmetricDifference") =>
        LET A == MembersV(alg.in[1])
            B == MembersV(alg.in[2])
        IN /\ MembersV(alg.result) = (A \ B) \cup (B \ A)
           /\ SizeV(alg.result) = Cardinality((A \ B) \cup (B \ A))
\* A SymmetricDifference has returned for two sets that share an item and
\* have an item of their own each.
C15_SymmetricDifferenceOfOverlapping ==
    /\ AlgDone("SymmetricDifference")
    /\ MembersV(alg.in[1]) \cap MembersV(alg.in[2]) # {}
    /\ MembersV(alg.in[1]) \ MembersV(alg.in[2]) # {}
    /\ MembersV(alg.in[2]) \ MembersV(alg.in[1]) # {}

\* C16: in sequential use s.IsSubset(t) returns true exactly when every item
\* of t is a member of s, and b.IsSuperset(a) returns what a.IsSubset(b)
\* returns: true exactly when every item of b is a member of a.  (last[1]
\* holds the receiver s and the argument t of the IsSubset call made.)
C16_IsSubsetIffAllMembers ==
    (th[1].pc = "idle" /\ last[1].op \in {"IsSubset", "IsSuperset"}) =>
        last[1].ok = (Members(last[1].t) \subseteq Members(last[1].s))

\* C18: in sequential use, when s.Separate(t) has returned, the members of s
\* are its former members that are not members of t, Size() of s is their
\* number, and t, unless it is s, is unchanged.
C18_SeparateTakesOutMembersOfOther ==
    Returned("Separate") =>
        LET s == last[1].s
            t == last[1].t
        IN /\ Members(s) = pre[1].members \ pre[1].all[t].members
           /\ Size(s) = Cardinality(Members(s))
           /\ t # s => /\ Members(t) = pre[1].all[t].members
                       /\ Size(t) = pre[1].all[t].size

\* C17: when c = s.Copy() has returned, s.IsEqual(c) and c.IsEqual(s) return
\* true and c has the Size() of s (and its members); afterwards an Add,
\* Remove, Pop or Clear on either of the two leaves the members and the
\* Size() of the other unchanged.
C17_CopyIsEqualAndIndependent ==
    /\ Returned("Copy") => Size(2) = Size(1) /\ Members(2) = Members(1)
    /\ Returned("IsEqual") => last[1].ok
    /\ (Copied /\ th[1].pc = "idle" /\ last[1].op \in {"Add", "Remove", "Pop", "Clear"}) =>
          \A o \in SetIds \ {last[1].s} :
              /\ Members(o) = pre[1].all[o].members
              /\ Size(o) = pre[1].all[o].size

\* The buckets whose lock goroutine t holds, exclusive (between Lock and
\* Unlock) or shared (between RLock and RUnlock).
LocksHeld(t) ==
    LET me == th[t]
    IN CASE me.pc \in {"Add_do", "Add_unlock", "Remove_do", "Remove_unlock", "Pop_do",
                       "Pop_unlock", "Clear_store", "Clear_len", "Clear_unlock",
                       "Has_do", "Has_runlock", "Eq_rlock2"} -> {me.set}
         [] me.pc \in {"Eq_cmp", "Eq_runlock1"} -> {me.set, me.tSet}
         [] me.pc = "Eq_runlock2" -> {me.tSet}
         [] OTHER -> {}

\* C19: in every reachable state each goroutine holds the lock of at most one
\* bucket, whatever methods of Set the goroutines run.
C19_AtMostOneBucketLock == \A t \in Threads : Cardinality(LocksHeld(t)) <= 1

\* What goroutine u is about to write: the map of a bucket (set.Add,
\* set.Remove, set.Pop under the bucket's lock) or a slot of s.Sets (Clear).
Writes(u) ==
    {<<"Storage", o>> : o \in {p \in ObjIds : WritesMap(u, p)}}
      \cup (IF th[u].pc = "Clear_store" THEN {<<"Sets", th[u].s, th[u].i>>} ELSE {})

\* What goroutine t is about to read while it holds no lock: a slot of s.Sets
\* (GetSet in Add, Remove and Has; the loops of List, IsSubset, Merge and
\* Separate) and the map of the bucket found there (those loops).
UnlockedReads(t) ==
    LET me == th[t]
    IN CASE me.pc \in {"Add_get", "Remove_get", "Has_get"} ->
              {<<"Sets", me.s, hash(me.items[me.i], Buckets)>>}
         [] me.pc = "List_get" ->
              {<<"Sets", me.s, me.bi>>, <<"Storage", Sets[me.s][me.bi]>>}
         [] me.pc \in {"Sub_get", "Merge_list", "Separate_list"} ->
              {<<"Sets", me.t, me.bi>>, <<"Storage", Sets[me.t][me.bi]>>}
         [] OTHER -> {}

\* C20: there is no reachable state in which one goroutine is about to write
\* a bucket's map or to replace a bucket slot while another is about to read
\* that map or that slot with no lock held.
C20_NoUnlockedReadRacesWrite ==
    \A t, u \in Threads : t # u => UnlockedReads(t) \cap Writes(u) = {}

\* C21: the index getSmallestSet has returned to Intersection is the first
\* index whose set has the least Size() of the arguments: no argument is
\* smaller than the set at that index and every argument before it is larger,
\* so that it is the first index when every Size() is 0 and when all are equal.
C21_SmallestIsFirstMinimal ==
    alg.op = "Intersection" =>
        LET k == alg.smallestIndex
        IN /\ \A j \in 1..Len(alg.sets) : SizeV(alg.sets[k]) <= SizeV(alg.sets[j])
           /\ \A j \in 1..(k - 1) : SizeV(alg.sets[j]) > SizeV(alg.sets[k])

\* The buckets Set s has installed, by index (none for a nil Set variable).
Installed(s) == {i \in BucketIdx : Sets[s][i] # 0}
\* The bucket installed at index i of Set s.
Bucket(s, i) == heap[Sets[s][i]]

\* C22: whenever no operation is in flight, in every Set each installed
\* bucket's size counter is the number of keys of its map, every item stored
\* in the bucket at index i has hash(item, Buckets) = i, so that no item is
\* stored in two buckets, and the Set has the Buckets slots it was made with.
C22_BucketsInStep ==
    Quiescent =>
        \A s \in SetIds :
            /\ DOMAIN Sets[s] = BucketIdx
            /\ \A i \in Installed(s) :
                  /\ Bucket(s, i).size = Cardinality(Bucket(s, i).Storage)
                  /\ \A item \in Bucket(s, i).Storage : hash(item, Buckets) = i
            /\ \A i, j \in Installed(s) :
                  i # j => Bucket(s, i).Storage \cap Bucket(s, j).Storage = {}
\* Racing calls have all returned and have left "b", and not "a", in a Set
\* made with "a" in it (or with nothing).
C22_InStepAfterRacingCalls ==
    /\ Quiescent
    /\ ops = MaxOpsBkt
    /\ Members(1) = {"b"}

\* The number of Pop calls that have returned an item of S.
RECURSIVE PoppedCount(_)
PoppedCount(S) ==
    IF S = {} THEN 0
    ELSE LET x == CHOOSE y \in S : TRUE IN popped.got[x] + PoppedCount(S \ {x})

\* C23: with goroutines racing Pop, and nothing else, on a Set made with k
\* distinct non-empty items, no item is returned by two Pop calls, every item
\* returned was a member, and once every call has returned the number of
\* items returned plus Size() is k.
C23_RacingPopsTakeDistinctMembers ==
    /\ \A x \in Range(Strings) : popped.got[x] <= 1
    /\ \A x \in Range(Strings) : popped.got[x] > 0 => x \in popped.from
    /\ Quiescent =>
          PoppedCount(Range(Strings)) + Size(1) = Cardinality(popped.from)
\* Every call has returned, two of them with an item and one with "" although
\* the Set still holds an item: a racing Pop had emptied the bucket it chose.
C23_RacedPopsAllReturned ==
    /\ Quiescent
    /\ PoppedCount(Range(Strings)) >= 2
    /\ PoppedCount(Range(Strings)) < ops
    /\ Size(1) > 0

\* C24: SetNonTS.Pop on a set whose Size() is above 0 returns a member,
\* whichever bucket index rand.Intn gives it to start from, takes that
\* member out and makes Size() one less.
C24_PopNonTSTakesOneMember ==
    (Returned("PopNonTS") /\ pre[1].size > 0) =>
        /\ last[1].str \in pre[1].members
        /\ Members(1) = pre[1].members \ {last[1].str}
        /\ Size(1) = pre[1].size - 1

====
